---- MODULE Spec2Model ----
(***************************************************************************)
(* A model of vimfiles/jedi_vim.py.                                        *)
(*                                                                         *)
(* Part 1 (Spec, FairSpec): the JediRemote bridge: the lazily spawned      *)
(* worker subprocess, the `process` property, reload() and _call, one      *)
(* statement of _call per step, with the worker exiting at any moment.     *)
(* The pipes are those of subprocess.Popen under Python 3: stdin is a      *)
(* buffered writer (write() fills the buffer, flush() pushes it into the   *)
(* pipe and raises BrokenPipeError once the reader is gone), stdout is     *)
(* read a line at a time (readline() blocks while the writer lives and     *)
(* the pipe is empty, and returns '' at end of file).                      *)
(***************************************************************************)
EXTENDS Integers, Sequences, FiniteSets, TLC

\* ------------------------------------------------------------------ bounds
MaxCalls == 3
MaxExits == 2
MaxReloads == 1

\* Every spawn but the first follows a worker exit or a reload(), so this many
\* Popen objects are enough for a spawn never to be refused by the model.
MaxWorkers == MaxExits + MaxReloads + 1

None == 0
Workers == 1..MaxWorkers

\* The remote functions the callbacks invoke through __getattr__.
Funcs == {"set_script", "completions"}

\* ------------------------------------------------------------- the envelope
NotFoundPrefix == <<"jedi.api.NotFoundError">>

\* Values of the 'message' field, as sequences of text pieces.
Messages ==
    { NotFoundPrefix,
      NotFoundPrefix \o <<": no name">>,
      <<"ValueError: ", "jedi.api.NotFoundError">>,
      <<"Traceback">> }

Payloads == {"r1", "r2"}

VARIABLES
    proc,        \* JediRemote._process: None or the Popen object (its number)
    status,      \* per Popen object: "unborn", "running" or "exited"
    signalled,   \* the workers terminate() was called on
    nspawned,    \* how many workers this object has spawned
    stdinBuf,    \* per worker: the client's buffered, unflushed writes
    stdinPipe,   \* per worker: what was flushed and the worker has not read
    stdoutPipe,  \* per worker: response lines written and not yet read
    nReq,        \* per worker: request lines it has consumed
    nRead,       \* per worker: response lines the client has read from it
    pc,          \* the caller: "idle", "get" (evaluating self.process), "op"
    stmt,        \* the statement of _call at hand: data, nl, flush, read
    p,           \* the process the current statement's self.process returned
    callNo,      \* the number of the call in progress (or of the last one)
    func,        \* its function name
    ops,         \* the pipe operations of the call so far, <<op, worker>>
    ret,         \* the last envelope read
    outcome,     \* how the last call ended
    nexits,
    nreloads,
    \* Part 2, the editor callbacks
    cstack,      \* the Python call stack under the editor, entry point first
    lastRet,     \* what the last finished callee handed to its caller
    propagated,  \* an exception left the entry point and reached the editor
    ntraces,     \* traces printed by catch_and_print_exceptions
    nraises,     \* exceptions the worker or the editor API raised
    ninvoked,    \* callbacks the editor has invoked
    \* Part 3, the editor and do_rename
    ed,          \* tab pages, their windows and the current ones
    text,        \* per file: its buffer's lines
    modified,    \* the buffers with unsaved changes
    option,      \* the buffer-opening option in force
    hidden,      \* the editor's 'hidden' option
    rpc,         \* do_rename: "idle", "loop", "done"
    replace,     \* its replacement
    todo,        \* temp_rename, what is left of it
    saved,       \* saved_tab and saved_win, and the window they stood for
    buffers,     \* the set `buffers`
    edits,       \* the replacements made: where, and what was replaced
    nfailed,     \* new_buffer calls that failed
    text0,       \* the buffers' lines when do_rename started
    \* Part 4, goto's tag jump
    tags,        \* the editor's &tags, a string of characters
    wildignore,  \* the editor's &wildignore
    tagfile,     \* the temporary tag file: "none", "unwritten", "written", "deleted"
    name,        \* f.name, what tempname() answered
    tpc,         \* the statement of the tag-stack block at hand
    old_tags,
    old_wildignore,
    raising,     \* an exception is on its way out of the block
    attempt,     \* "none", "entered" (the with body), "succeeded", "raised" (tjump)
    tags0,       \* &tags and &wildignore when the block started
    wildignore0

bridgeVars == <<proc, status, signalled, nspawned, stdinBuf, stdinPipe, stdoutPipe,
          nReq, nRead, pc, stmt, p, callNo, func, ops, ret, outcome, nexits,
          nreloads>>
cbVars == <<cstack, lastRet, propagated, ntraces, nraises, ninvoked>>
renVars == <<ed, text, modified, option, hidden, rpc, replace, todo, saved,
             buffers, edits, nfailed, text0>>
tagVars == <<tags, wildignore, tagfile, name, tpc, old_tags, old_wildignore,
             raising, attempt, tags0, wildignore0>>

vars == <<proc, status, signalled, nspawned, stdinBuf, stdinPipe, stdoutPipe,
          nReq, nRead, pc, stmt, p, callNo, func, ops, ret, outcome, nexits,
          nreloads, cstack, lastRet, propagated, ntraces, nraises, ninvoked,
          ed, text, modified, option, hidden, rpc, replace, todo, saved,
          buffers, edits, nfailed, text0, tags, wildignore, tagfile, name,
          tpc, old_tags, old_wildignore, raising, attempt, tags0, wildignore0>>

NoEnvelope == [code |-> "none", message |-> <<>>, return |-> "none",
               forCall |-> 0, seq |-> 0]
NoOutcome == [kind |-> "none", value |-> "none", message |-> <<>>]

\* ---------------------------------------------------------------- helpers
StartsWith(s, prefix) ==
    /\ Len(s) >= Len(prefix)
    /\ SubSeq(s, 1, Len(prefix)) = prefix

\* Popen.poll() is None
Poll(w) == IF status[w] = "running" THEN "None" ELSE "returncode"

\* `not (self._process and self._process.poll() is None)`
NeedsSpawn_NoPoll(pr) == pr = None
NeedsSpawn(pr) == ~ (pr # None /\ Poll(pr) = "None")

\* the position of the first newline of a pipe's content, 0 when none
FirstNl(q) ==
    IF \E i \in 1..Len(q) : q[i].k = "nl"
    THEN CHOOSE i \in 1..Len(q) : q[i].k = "nl" /\ \A j \in 1..(i-1) : q[j].k # "nl"
    ELSE 0

\* the statements of _call in program order
NextStmt_NoFlush(s, f) ==
    CASE s = "data" -> "nl"
      [] s = "nl" -> "read"
      [] OTHER -> "end"
NextStmt_SkipRead(s, f) ==
    CASE s = "data" -> "nl"
      [] s = "nl" -> "flush"
      [] s = "flush" -> IF f = "set_script" THEN "end" ELSE "read"
      [] OTHER -> "end"
NextStmt(s, f) ==
    CASE s = "data" -> "nl"
      [] s = "nl" -> "flush"
      [] s = "flush" -> "read"
      [] OTHER -> "end"

\* lines 194-201: the envelope becomes a return value or an exception
Decode_Fallthrough(e) ==
    IF e.code = "ok"
    THEN [kind |-> "return", value |-> e.return, message |-> <<>>]
    ELSE IF e.message = NotFoundPrefix
    THEN [kind |-> "NotFoundError", value |-> "none", message |-> <<>>]
    ELSE IF StartsWith(e.message, NotFoundPrefix)
    THEN [kind |-> "return", value |-> "none", message |-> <<>>]
    ELSE [kind |-> "Exception", value |-> "none", message |-> e.message]
Decode(e) ==
    IF e.code = "ok"
    THEN [kind |-> "return", value |-> e.return, message |-> <<>>]
    ELSE IF StartsWith(e.message, NotFoundPrefix)
    THEN [kind |-> "NotFoundError", value |-> "none", message |-> <<>>]
    ELSE [kind |-> "Exception", value |-> "none", message |-> e.message]

\* ------------------------------------------------------------------- Init
\* JediRemote.__init__: no process
BridgeInit ==
    /\ proc = None
    /\ status = [w \in Workers |-> "unborn"]
    /\ signalled = {}
    /\ nspawned = 0
    /\ stdinBuf = [w \in Workers |-> <<>>]
    /\ stdinPipe = [w \in Workers |-> <<>>]
    /\ stdoutPipe = [w \in Workers |-> <<>>]
    /\ nReq = [w \in Workers |-> 0]
    /\ nRead = [w \in Workers |-> 0]
    /\ pc = "idle"
    /\ stmt = "end"
    /\ p = None
    /\ callNo = 0
    /\ func = "none"
    /\ ops = <<>>
    /\ ret = NoEnvelope
    /\ outcome = NoOutcome
    /\ nexits = 0
    /\ nreloads = 0

\* ------------------------------------------------------- the caller's steps
\* jedi_remote.<name>(...): __getattr__ hands the name to _call
CallStart ==
    /\ pc = "idle"
    /\ callNo < MaxCalls
    /\ \E f \in Funcs : func' = f
    /\ callNo' = callNo + 1
    /\ pc' = "get"
    /\ stmt' = "data"
    /\ ops' = <<>>
    /\ ret' = NoEnvelope
    /\ outcome' = NoOutcome
    /\ p' = None
    /\ UNCHANGED <<proc, status, signalled, nspawned, stdinBuf, stdinPipe,
                   stdoutPipe, nReq, nRead, nexits, nreloads>>
    /\ UNCHANGED <<cbVars, renVars, tagVars>>

\* the `process` property, evaluated anew by each statement of _call
GetProcess ==
    /\ pc = "get"
    /\ IF NeedsSpawn(proc)
       THEN /\ nspawned < MaxWorkers
            /\ nspawned' = nspawned + 1
            /\ proc' = nspawned + 1
            /\ status' = [status EXCEPT ![nspawned + 1] = "running"]
       ELSE UNCHANGED <<nspawned, proc, status>>
    /\ p' = proc'
    /\ pc' = "op"
    /\ UNCHANGED <<signalled, stdinBuf, stdinPipe, stdoutPipe, nReq, nRead,
                   stmt, callNo, func, ops, ret, outcome, nexits, nreloads>>
    /\ UNCHANGED <<cbVars, renVars, tagVars>>

Advance ==
    /\ stmt' = NextStmt(stmt, func)
    /\ pc' = IF NextStmt(stmt, func) = "end" THEN "idle" ELSE "get"

\* self.process.stdin.write(data.encode('utf-8'))
WriteData ==
    /\ pc = "op" /\ stmt = "data"
    /\ stdinBuf' = [stdinBuf EXCEPT ![p] = Append(@, [k |-> "data", call |-> callNo])]
    /\ ops' = Append(ops, <<"data", p>>)
    /\ Advance
    /\ UNCHANGED <<proc, status, signalled, nspawned, stdinPipe, stdoutPipe,
                   nReq, nRead, p, callNo, func, ret, outcome, nexits, nreloads>>
    /\ UNCHANGED <<cbVars, renVars, tagVars>>

\* self.process.stdin.write(b'\n')
WriteNewline ==
    /\ pc = "op" /\ stmt = "nl"
    /\ stdinBuf' = [stdinBuf EXCEPT ![p] = Append(@, [k |-> "nl", call |-> callNo])]
    /\ ops' = Append(ops, <<"nl", p>>)
    /\ Advance
    /\ UNCHANGED <<proc, status, signalled, nspawned, stdinPipe, stdoutPipe,
                   nReq, nRead, p, callNo, func, ret, outcome, nexits, nreloads>>
    /\ UNCHANGED <<cbVars, renVars, tagVars>>

\* self.process.stdin.flush()
Flush ==
    /\ pc = "op" /\ stmt = "flush"
    /\ ops' = Append(ops, <<"flush", p>>)
    /\ \/ /\ status[p] = "running"
          /\ stdinPipe' = [stdinPipe EXCEPT ![p] = @ \o stdinBuf[p]]
          /\ stdinBuf' = [stdinBuf EXCEPT ![p] = <<>>]
          /\ Advance
          /\ UNCHANGED outcome
       \/ /\ status[p] = "exited"
          /\ stdinBuf[p] = <<>>
          /\ Advance
          /\ UNCHANGED <<stdinPipe, stdinBuf, outcome>>
       \/ /\ status[p] = "exited"
          /\ stdinBuf[p] # <<>>
          /\ outcome' = [kind |-> "BrokenPipeError", value |-> "none", message |-> <<>>]
          /\ pc' = "idle"
          /\ stmt' = "end"
          /\ UNCHANGED <<stdinPipe, stdinBuf>>
    /\ UNCHANGED <<proc, status, signalled, nspawned, stdoutPipe, nReq, nRead,
                   p, callNo, func, ret, nexits, nreloads>>
    /\ UNCHANGED <<cbVars, renVars, tagVars>>

\* ret = json.loads(self.process.stdout.readline()...), then lines 194-201
Readline ==
    /\ pc = "op" /\ stmt = "read"
    /\ ops' = Append(ops, <<"read", p>>)
    /\ \/ /\ stdoutPipe[p] # <<>>
          /\ ret' = Head(stdoutPipe[p])
          /\ stdoutPipe' = [stdoutPipe EXCEPT ![p] = Tail(@)]
          /\ nRead' = [nRead EXCEPT ![p] = @ + 1]
          /\ outcome' = Decode(Head(stdoutPipe[p]))
       \/ /\ stdoutPipe[p] = <<>>
          /\ status[p] = "exited"
          /\ outcome' = [kind |-> "ValueError", value |-> "none", message |-> <<>>]
          /\ UNCHANGED <<ret, stdoutPipe, nRead>>
    /\ Advance
    /\ UNCHANGED <<proc, status, signalled, nspawned, stdinBuf, stdinPipe, nReq,
                   p, callNo, func, nexits, nreloads>>
    /\ UNCHANGED <<cbVars, renVars, tagVars>>

\* JediRemote.reload, called between two calls
Reload ==
    /\ pc = "idle"
    /\ nreloads < MaxReloads
    /\ nreloads' = nreloads + 1
    /\ IF proc # None
       THEN /\ signalled' = signalled \cup {proc}
            /\ proc' = None
       ELSE UNCHANGED <<signalled, proc>>
    /\ UNCHANGED <<status, nspawned, stdinBuf, stdinPipe, stdoutPipe, nReq,
                   nRead, pc, stmt, p, callNo, func, ops, ret, outcome, nexits>>
    /\ UNCHANGED <<cbVars, renVars, tagVars>>

\* -------------------------------------------------------------- the worker
Envelopes(c, n) ==
    [code : {"ok"}, message : {<<>>}, return : Payloads, forCall : {c}, seq : {n}]
    \cup [code : {"error"}, message : Messages, return : {"none"}, forCall : {c},
          seq : {n}]

\* the worker reads one request line and writes one response line
WorkerReply(w) ==
    /\ status[w] = "running"
    /\ FirstNl(stdinPipe[w]) # 0
    /\ LET i == FirstNl(stdinPipe[w]) IN
         /\ stdinPipe' = [stdinPipe EXCEPT ![w] = SubSeq(@, i + 1, Len(@))]
         /\ nReq' = [nReq EXCEPT ![w] = @ + 1]
         /\ \E e \in Envelopes(stdinPipe[w][i].call, nReq[w] + 1) :
               stdoutPipe' = [stdoutPipe EXCEPT ![w] = Append(@, e)]
    /\ UNCHANGED <<proc, status, signalled, nspawned, stdinBuf, nRead, pc, stmt,
                   p, callNo, func, ops, ret, outcome, nexits, nreloads>>
    /\ UNCHANGED <<cbVars, renVars, tagVars>>

\* the worker process ends: a crash, or the signal terminate() sent arrives
WorkerExit(w) ==
    /\ status[w] = "running"
    /\ nexits < MaxExits
    /\ nexits' = nexits + 1
    /\ status' = [status EXCEPT ![w] = "exited"]
    /\ stdinPipe' = [stdinPipe EXCEPT ![w] = <<>>]
    /\ UNCHANGED <<proc, signalled, nspawned, stdinBuf, stdoutPipe, nReq, nRead,
                   pc, stmt, p, callNo, func, ops, ret, outcome, nreloads>>
    /\ UNCHANGED <<cbVars, renVars, tagVars>>

(***************************************************************************)
(* Part 2 (CallbackSpec): the functions the editor calls, their decorators *)
(* and what becomes of an exception raised under them.                     *)
(***************************************************************************)
MaxRaises == 2
MaxInvocations == 2

\* the functions the editor's commands and autocommands call
EntryPoints ==
    {"completions", "goto", "show_documentation", "show_call_signatures",
     "clear_call_signatures", "rename", "rename_visual", "py_import",
     "py_import_completions"}

\* the functions defined under @catch_and_print_exceptions
Guarded(f) ==
    f \in {"set_script", "get_script", "completions", "goto",
           "show_documentation", "clear_call_signatures",
           "show_call_signatures", "cmdline_call_signatures", "rename",
           "py_import", "py_import_completions", "new_buffer", "_tabnew"}

\* the functions of the module each function calls
Calls(f) ==
    CASE f = "completions" ->
            {"clear_call_signatures", "set_script", "show_call_signatures"}
      [] f = "goto" -> {"set_script", "new_buffer"}
      [] f = "show_documentation" -> {"set_script"}
      [] f = "show_call_signatures" ->
            {"get_script", "clear_call_signatures", "cmdline_call_signatures"}
      [] f = "rename" -> {"do_rename"}
      [] f = "rename_visual" -> {"do_rename"}
      [] f = "do_rename" -> {"goto", "new_buffer"}
      [] f = "py_import" -> {"new_buffer"}
      [] f = "new_buffer" -> {"_tabnew"}
      [] OTHER -> {}

\* the functions whose body holds a try/except of its own around remote calls
InnerTry == {"completions", "goto", "show_documentation"}

Top(st) == st[Len(st)]
Pop(st) == SubSeq(st, 1, Len(st) - 1)
NoRet == [of |-> "none", value |-> "none"]

\* the innermost frame whose wrapper catches, 0 when no frame does
Catcher(st) ==
    IF \E i \in 1..Len(st) : Guarded(st[i])
    THEN CHOOSE i \in 1..Len(st) :
            Guarded(st[i]) /\ \A j \in (i+1)..Len(st) : ~ Guarded(st[j])
    ELSE 0

\* line 657: sorted(None) once goto's wrapper has turned an exception into None
MustRaise ==
    /\ cstack # <<>>
    /\ Top(cstack) = "do_rename"
    /\ lastRet = [of |-> "goto", value |-> "None"]

CbIdle ==
    /\ cstack = <<>>
    /\ lastRet = NoRet
    /\ propagated = FALSE
    /\ ntraces = 0
    /\ nraises = 0
    /\ ninvoked = 0

\* the editor runs one of its commands
CbInvoke(e) ==
    /\ cstack = <<>>
    /\ ninvoked < MaxInvocations
    /\ ninvoked' = ninvoked + 1
    /\ cstack' = <<e>>
    /\ lastRet' = NoRet
    /\ propagated' = FALSE
    /\ UNCHANGED <<ntraces, nraises>>
    /\ UNCHANGED <<bridgeVars, renVars, tagVars>>

\* the running function calls another function of the module
CbCall(g) ==
    /\ cstack # <<>>
    /\ ~ MustRaise
    /\ g \in Calls(Top(cstack))
    /\ cstack' = Append(cstack, g)
    /\ lastRet' = NoRet
    /\ UNCHANGED <<propagated, ntraces, nraises, ninvoked>>
    /\ UNCHANGED <<bridgeVars, renVars, tagVars>>

\* the running function returns
CbReturn ==
    /\ cstack # <<>>
    /\ ~ MustRaise
    /\ lastRet' = [of |-> Top(cstack), value |-> "value"]
    /\ cstack' = Pop(cstack)
    /\ UNCHANGED <<propagated, ntraces, nraises, ninvoked>>
    /\ UNCHANGED <<bridgeVars, renVars, tagVars>>

\* an exception unwinds to the innermost wrapper (lines 118-125), which prints
\* the trace and returns None, or leaves the entry point when there is none
Unwind ==
    LET k == Catcher(cstack) IN
      IF k = 0
      THEN /\ cstack' = <<>>
           /\ propagated' = TRUE
           /\ lastRet' = NoRet
           /\ UNCHANGED ntraces
      ELSE /\ cstack' = SubSeq(cstack, 1, k - 1)
           /\ lastRet' = [of |-> cstack[k], value |-> "None"]
           /\ ntraces' = ntraces + 1
           /\ UNCHANGED propagated

\* the worker (through _call) or the editor API raises in the running function
CbRaise ==
    /\ cstack # <<>>
    /\ ~ MustRaise
    /\ nraises < MaxRaises
    /\ nraises' = nraises + 1
    /\ Unwind
    /\ UNCHANGED ninvoked
    /\ UNCHANGED <<bridgeVars, renVars, tagVars>>

\* a remote call raises inside the function's own try block, which handles it
CbRaiseInTry ==
    /\ cstack # <<>>
    /\ Top(cstack) \in InnerTry
    /\ nraises < MaxRaises
    /\ nraises' = nraises + 1
    /\ ntraces' = IF Top(cstack) = "goto" THEN ntraces ELSE ntraces + 1
    /\ UNCHANGED <<cstack, lastRet, propagated, ninvoked>>
    /\ UNCHANGED <<bridgeVars, renVars, tagVars>>

\* do_rename sorts the None it got from goto: TypeError
CbTypeError ==
    /\ MustRaise
    /\ Unwind
    /\ UNCHANGED <<nraises, ninvoked>>
    /\ UNCHANGED <<bridgeVars, renVars, tagVars>>


(***************************************************************************)
(* Part 3 (RenameSpec): do_rename and new_buffer over the editor's tab     *)
(* pages, windows and buffers.  A buffer is a sequence of lines, a line a  *)
(* sequence of characters.  Window and tab page numbers are positions, as  *)
(* in the editor: `topleft` puts the new window first, `botright` last, a  *)
(* plain split before the current window, `tabnew` after the current tab   *)
(* page.                                                                   *)
(***************************************************************************)
NPaths == 2
MaxLines == 2
MaxCols == 2
MaxReplaceLen == 3
MaxTabs0 == 1
MaxOpenFailures == 1
MaxOptLen == 2

\* module paths, in their sort order
Paths == 1..NPaths

\* the word under the cursor when the rename was asked for
Orig == <<"a", "a">>
ReplaceChar == "b"
Replacements == {[i \in 1..n |-> ReplaceChar] : n \in 0..MaxReplaceLen}

\* values of g:jedi#use_tabs_not_buffers / g:jedi#use_splits_not_buffers:
\* "tabs" is use_tabs_not_buffers = 1, "edit" is use_splits_not_buffers = 1,
\* "invalid" any value new_buffer does not know, the others that very value
Options == {"tabs", "top", "left", "right", "bottom", "winwidth", "invalid", "edit"}
SupportedOptions == Options \ {"invalid"}

RECURSIVE Flatten(_)
Flatten(items) ==
    IF items = <<>> THEN <<>>
    ELSE (IF Head(items) = "W" THEN Orig ELSE <<"x">>) \o Flatten(Tail(items))

\* the lines a buffer may hold: the word and other characters
BufferLines == {Flatten(it) : it \in [1..MaxCols -> {"W", "x"}]}
BufferTexts == [1..MaxLines -> BufferLines]

TextAt(line, col, n) ==
    SubSeq(line, col + 1, IF col + n <= Len(line) THEN col + n ELSE Len(line))

\* the columns of a line where the word stands
RECURSIVE Occurrences(_, _)
Occurrences(line, col) ==
    IF col + Len(Orig) > Len(line) THEN {}
    ELSE IF TextAt(line, col, Len(Orig)) = Orig
         THEN {col} \cup Occurrences(line, col + Len(Orig))
         ELSE Occurrences(line, col + 1)

\* goto(mode="related_name", no_output=True): the usages of the word, each
\* with module_path and start_pos = (line, column)
Usages(txt) ==
    {u \in [path : Paths, line : 1..MaxLines, col : 0..(MaxCols * Len(Orig))] :
        u.col \in Occurrences(txt[u.path][u.line], 0)}

\* the sort key (x.module_path, x.start_pos), compared as tuples
KeyLess(u, v) ==
    \/ u.path < v.path
    \/ u.path = v.path /\ u.line < v.line
    \/ u.path = v.path /\ u.line = v.line /\ u.col < v.col

\* sorted(temp_rename, reverse=True, key=...)
RECURSIVE SortUsages_Ascending(_)
SortUsages_Ascending(S) ==
    IF S = {} THEN <<>>
    ELSE LET m == CHOOSE u \in S : \A v \in S \ {u} : KeyLess(u, v)
         IN <<m>> \o SortUsages_Ascending(S \ {m})
RECURSIVE SortUsages(_)
SortUsages(S) ==
    IF S = {} THEN <<>>
    ELSE LET m == CHOOSE u \in S : \A v \in S \ {u} : KeyLess(v, u)
         IN <<m>> \o SortUsages(S \ {m})

\* vim.current.window.cursor = r.start_pos; normal! c{len(orig)}l{replace}
ReplaceAt(line, col, n, rep) ==
    LET c == IF col < Len(line) THEN col
             ELSE IF Len(line) = 0 THEN 0 ELSE Len(line) - 1
    IN SubSeq(line, 1, c) \o rep \o SubSeq(line, c + n + 1, Len(line))

\* ------------------------------------------------------------- the editor
InsertAt(q, i, x) == SubSeq(q, 1, i - 1) \o <<x>> \o SubSeq(q, i, Len(q))

CurTab(e) == e.tabs[e.cur]
CurWin(e) == CurTab(e).wins[CurTab(e).cur]
\* vim.current.buffer.name
CurBuf(e) == CurWin(e).buf

\* :tabnew path
TabNew(e, path) ==
    LET t == [id |-> e.nextId,
              wins |-> <<[id |-> e.nextId + 1, buf |-> path]>>,
              cur |-> 1]
    IN [tabs |-> InsertAt(e.tabs, e.cur + 1, t), cur |-> e.cur + 1,
        nextId |-> e.nextId + 2]

Shows(t, path) == \E j \in 1..Len(t.wins) : t.wins[j].buf = path

\* _tabnew: switch to the first tab page and window showing the file, or open
\* a new tab page for it
TabNewOrSwitch(e, path) ==
    IF \E i \in 1..Len(e.tabs) : Shows(e.tabs[i], path)
    THEN LET i == CHOOSE i \in 1..Len(e.tabs) :
                    Shows(e.tabs[i], path)
                    /\ \A k \in 1..(i-1) : ~ Shows(e.tabs[k], path)
             j == CHOOSE j \in 1..Len(e.tabs[i].wins) :
                    e.tabs[i].wins[j].buf = path
                    /\ \A k \in 1..(j-1) : e.tabs[i].wins[k].buf # path
         IN [e EXCEPT !.cur = i, !.tabs[i].cur = j]
    ELSE TabNew(e, path)

\* :topleft split, :botright split, :vs, :sp and their like
SplitWindow(e, path, where) ==
    LET t == CurTab(e)
        i == CASE where = "first" -> 1
               [] where = "last" -> Len(t.wins) + 1
               [] OTHER -> t.cur
    IN [e EXCEPT !.tabs[e.cur].wins = InsertAt(t.wins, i, [id |-> e.nextId, buf |-> path]),
                 !.tabs[e.cur].cur = i,
                 !.nextId = e.nextId + 1]

\* :edit path
EditBuffer(e, path) ==
    [e EXCEPT !.tabs[e.cur].wins[CurTab(e).cur].buf = path]

\* new_buffer(path), the editor it leaves when its commands succeed
NewBuffer(e, path, opt) ==
    CASE opt = "tabs" -> TabNewOrSwitch(e, path)
      [] opt \in {"top", "left"} -> SplitWindow(e, path, "first")
      [] opt \in {"right", "bottom"} -> SplitWindow(e, path, "last")
      [] opt = "winwidth" -> SplitWindow(e, path, "before")
      [] opt = "invalid" -> e
      [] OTHER -> EditBuffer(e, path)

\* lines 749-754: the modified buffer is written before :edit leaves it
AfterWrite(e, opt, hid, mod) ==
    IF opt = "edit" /\ ~ hid /\ CurBuf(e) \in mod THEN mod \ {CurBuf(e)} ELSE mod

\* tabnext {saved_tab}; {saved_win}wincmd w
RestoreTabAndWindow(e, sv) ==
    LET n == Len(e.tabs[sv.tab].wins)
    IN [e EXCEPT !.cur = sv.tab,
                 !.tabs[sv.tab].cur = IF sv.win <= n THEN sv.win ELSE n]

NoSaved == [tab |-> 0, win |-> 0, tabId |-> 0, winId |-> 0]

\* the tab pages open when the command is given, one window each
Layouts ==
    UNION {{[tabs |-> [i \in 1..n |-> [id |-> 2 * i - 1,
                                       wins |-> <<[id |-> 2 * i, buf |-> b[i]]>>,
                                       cur |-> 1]],
             cur |-> c, nextId |-> 2 * n + 1] :
               b \in [1..n -> Paths], c \in 1..n} : n \in 1..MaxTabs0}

RenIdle ==
    /\ ed = [tabs |-> <<[id |-> 1, wins |-> <<[id |-> 2, buf |-> 1]>>, cur |-> 1]>>,
             cur |-> 1, nextId |-> 3]
    /\ text = [f \in Paths |-> [l \in 1..MaxLines |-> <<>>]]
    /\ text0 = text
    /\ modified = {}
    /\ option = "edit"
    /\ hidden = FALSE
    /\ rpc = "idle"
    /\ replace = <<>>
    /\ todo = <<>>
    /\ saved = NoSaved
    /\ buffers = {}
    /\ edits = <<>>
    /\ nfailed = 0

RenInit ==
    /\ ed \in Layouts
    /\ text \in [Paths -> BufferTexts]
    /\ text0 = text
    /\ modified = {}
    /\ option \in Options
    /\ hidden \in BOOLEAN
    /\ rpc = "idle"
    /\ replace = <<>>
    /\ todo = <<>>
    /\ saved = NoSaved
    /\ buffers = {}
    /\ edits = <<>>
    /\ nfailed = 0

\* do_rename, lines 642-659
RenStart(rep) ==
    /\ rpc = "idle"
    /\ replace' = rep
    /\ IF Len(rep) = 0
       THEN /\ rpc' = "done"
            /\ UNCHANGED <<saved, todo>>
       ELSE /\ rpc' = "loop"
            /\ saved' = [tab |-> ed.cur, win |-> CurTab(ed).cur,
                         tabId |-> CurTab(ed).id, winId |-> CurWin(ed).id]
            /\ todo' = SortUsages(Usages(text))
    /\ UNCHANGED <<ed, text, text0, modified, option, hidden, buffers, edits, nfailed>>
    /\ UNCHANGED <<bridgeVars, cbVars, tagVars>>

\* one turn of the loop, lines 660-680, with new_buffer succeeding
RenReplace ==
    /\ rpc = "loop"
    /\ todo # <<>>
    /\ LET r == Head(todo)
           open == CurBuf(ed) # r.path
           e1 == IF open THEN NewBuffer(ed, r.path, option) ELSE ed
           m1 == IF open THEN AfterWrite(ed, option, hidden, modified) ELSE modified
           cb == CurBuf(e1)
       IN /\ ed' = e1
          /\ buffers' = buffers \cup {cb}
          /\ edits' = Append(edits, [path |-> cb, usage |-> r,
                                     found |-> TextAt(text[cb][r.line], r.col, Len(Orig))])
          /\ text' = [text EXCEPT ![cb][r.line] = ReplaceAt(@, r.col, Len(Orig), replace)]
          /\ modified' = m1 \cup {cb}
    /\ todo' = Tail(todo)
    /\ UNCHANGED <<text0, option, hidden, rpc, replace, saved, nfailed>>
    /\ UNCHANGED <<bridgeVars, cbVars, tagVars>>

\* one turn of the loop where new_buffer fails (a command of the editor
\* raised, the wrapper returned None): lines 665-668, the usage is skipped
RenOpenFails ==
    /\ rpc = "loop"
    /\ todo # <<>>
    /\ CurBuf(ed) # Head(todo).path
    /\ option # "invalid"
    /\ nfailed < MaxOpenFailures
    /\ nfailed' = nfailed + 1
    /\ todo' = Tail(todo)
    /\ UNCHANGED <<ed, text, text0, modified, option, hidden, rpc, replace, saved,
                   buffers, edits>>
    /\ UNCHANGED <<bridgeVars, cbVars, tagVars>>

\* lines 682-690
RenFinish ==
    /\ rpc = "loop"
    /\ todo = <<>>
    /\ ed' = RestoreTabAndWindow(ed, saved)
    /\ rpc' = "done"
    /\ UNCHANGED <<text, text0, modified, option, hidden, replace, todo, saved,
                   buffers, edits, nfailed>>
    /\ UNCHANGED <<bridgeVars, cbVars, tagVars>>

\* ------------------------------------------------- Part 4, goto's tag jump
\* The characters option values and file names are made of.  "NL" is the
\* line feed, which only the editor's string evaluation can produce here.
Chars == {"a", "n", "\\", "\""}
Strings(n) == UNION {[1..k -> Chars] : k \in 0..n}
OptionValues == Strings(MaxOptLen)
TempNames == {<<"a">>, <<"\\", "a">>}

\* str.replace(c, r) for a one-character c
RECURSIVE Replace(_, _, _)
Replace(s, c, r) ==
    IF s = <<>> THEN <<>>
    ELSE (IF Head(s) = c THEN r ELSE <<Head(s)>>) \o Replace(Tail(s), c, r)

\* repr(PythonToVimStr(s)): backslashes doubled, then double quotes escaped,
\* the whole in double quotes
repr(s) ==
    <<"\"">> \o Replace(Replace(s, "\\", <<"\\", "\\">>), "\"", <<"\\", "\"">>)
             \o <<"\"">>

\* The editor evaluating a double-quoted string: a backslash takes the next
\* character with it (\n is the line feed, \\ and \" the character itself),
\* an unescaped double quote ends the string and must end the expression.
Unescaped(c) == IF c = "n" THEN "NL" ELSE c
RECURSIVE ScanString(_, _)
ScanString(r, acc) ==
    IF r = <<>> THEN [ok |-> FALSE, value |-> <<>>]
    ELSE IF Head(r) = "\"" THEN [ok |-> Tail(r) = <<>>, value |-> acc]
    ELSE IF Head(r) = "\\"
         THEN IF Len(r) < 2 THEN [ok |-> FALSE, value |-> <<>>]
              ELSE ScanString(Tail(Tail(r)), Append(acc, Unescaped(r[2])))
    ELSE ScanString(Tail(r), Append(acc, Head(r)))
EvalString(lit) ==
    IF lit = <<>> \/ Head(lit) # "\"" THEN [ok |-> FALSE, value |-> <<>>]
    ELSE ScanString(Tail(lit), <<>>)

\* where an exception raised inside the try block goes: its finally clause
OnRaise_NoFinally == "unlink"
OnRaise == "restore_tags"

TagIdle ==
    /\ tags = <<>> /\ wildignore = <<>> /\ tagfile = "none" /\ name = <<"a">>
    /\ tpc = "idle" /\ old_tags = <<>> /\ old_wildignore = <<>>
    /\ raising = FALSE /\ attempt = "none"
    /\ tags0 = <<>> /\ wildignore0 = <<>>

TagInit ==
    /\ tags \in OptionValues /\ wildignore \in OptionValues
    /\ name \in TempNames
    /\ tagfile = "none" /\ tpc = "idle"
    /\ old_tags = <<>> /\ old_wildignore = <<>>
    /\ raising = FALSE /\ attempt = "none"
    /\ tags0 = tags /\ wildignore0 = wildignore

\* with tempfile(...) as f: the file is opened and written before the try of
\* the context manager is entered, so a failing write leaves it behind
Tempfile ==
    /\ tpc = "idle"
    /\ \/ /\ tagfile' = "written"
          /\ attempt' = "entered"
          /\ tpc' = "old_tags"
          /\ UNCHANGED raising
       \/ /\ tagfile' = "unwritten"
          /\ raising' = TRUE
          /\ tpc' = "done"
          /\ UNCHANGED attempt
    /\ UNCHANGED <<tags, wildignore, name, old_tags, old_wildignore, tags0,
                   wildignore0>>
    /\ UNCHANGED <<bridgeVars, cbVars, renVars>>

\* old_tags = vim.eval('&tags')
EvalTags ==
    /\ tpc = "old_tags"
    /\ old_tags' = tags
    /\ tpc' = "old_wildignore"
    /\ UNCHANGED <<tags, wildignore, tagfile, name, old_wildignore, raising,
                   attempt, tags0, wildignore0>>
    /\ UNCHANGED <<bridgeVars, cbVars, renVars>>

\* old_wildignore = vim.eval('&wildignore')
EvalWildignore ==
    /\ tpc = "old_wildignore"
    /\ old_wildignore' = wildignore
    /\ tpc' = "set_wildignore"
    /\ UNCHANGED <<tags, wildignore, tagfile, name, old_tags, raising, attempt,
                   tags0, wildignore0>>
    /\ UNCHANGED <<bridgeVars, cbVars, renVars>>

\* vim.command('set wildignore='), which raises vim.error when the editor
\* refuses the command
SetWildignore ==
    /\ tpc = "set_wildignore"
    /\ \/ /\ wildignore' = <<>>
          /\ tpc' = "let_tags"
          /\ UNCHANGED raising
       \/ /\ raising' = TRUE
          /\ tpc' = OnRaise
          /\ UNCHANGED wildignore
    /\ UNCHANGED <<tags, tagfile, name, old_tags, old_wildignore, attempt,
                   tags0, wildignore0>>
    /\ UNCHANGED <<bridgeVars, cbVars, renVars>>

\* vim.command('let &tags = %s' % repr(PythonToVimStr(f.name)))
LetTags ==
    /\ tpc = "let_tags"
    /\ LET e == EvalString(repr(name))
       IN  IF e.ok
           THEN /\ tags' = e.value
                /\ tpc' = "tjump"
                /\ UNCHANGED raising
           ELSE /\ raising' = TRUE
                /\ tpc' = OnRaise
                /\ UNCHANGED tags
    /\ UNCHANGED <<wildignore, tagfile, name, old_tags, old_wildignore,
                   attempt, tags0, wildignore0>>
    /\ UNCHANGED <<bridgeVars, cbVars, renVars>>

\* vim.command('tjump %s' % tagname): the jump is made through the temporary
\* tag file, or the command raises vim.error
Tjump ==
    /\ tpc = "tjump"
    /\ \/ /\ tags = name /\ tagfile = "written"
          /\ attempt' = "succeeded"
          /\ tpc' = "restore_tags"
          /\ UNCHANGED raising
       \/ /\ attempt' = "raised"
          /\ raising' = TRUE
          /\ tpc' = OnRaise
    /\ UNCHANGED <<tags, wildignore, tagfile, name, old_tags, old_wildignore,
                   tags0, wildignore0>>
    /\ UNCHANGED <<bridgeVars, cbVars, renVars>>

\* finally: vim.command('let &tags = %s' % repr(PythonToVimStr(old_tags)));
\* an exception here leaves the finally clause at once
RestoreTags ==
    /\ tpc = "restore_tags"
    /\ LET e == EvalString(repr(old_tags))
       IN  IF e.ok
           THEN /\ tags' = e.value
                /\ tpc' = "restore_wildignore"
                /\ UNCHANGED raising
           ELSE /\ raising' = TRUE
                /\ tpc' = "unlink"
                /\ UNCHANGED tags
    /\ UNCHANGED <<wildignore, tagfile, name, old_tags, old_wildignore,
                   attempt, tags0, wildignore0>>
    /\ UNCHANGED <<bridgeVars, cbVars, renVars>>

\* vim.command('let &wildignore = %s' % repr(PythonToVimStr(old_wildignore)))
RestoreWildignore ==
    /\ tpc = "restore_wildignore"
    /\ LET e == EvalString(repr(old_wildignore))
       IN  IF e.ok
           THEN /\ wildignore' = e.value
                /\ UNCHANGED raising
           ELSE /\ raising' = TRUE
                /\ UNCHANGED wildignore
    /\ tpc' = "unlink"
    /\ UNCHANGED <<tags, tagfile, name, old_tags, old_wildignore, attempt,
                   tags0, wildignore0>>
    /\ UNCHANGED <<bridgeVars, cbVars, renVars>>

\* tempfile's finally: os.unlink(f.name)
Unlink ==
    /\ tpc = "unlink"
    /\ tagfile' = "deleted"
    /\ tpc' = "done"
    /\ UNCHANGED <<tags, wildignore, name, old_tags, old_wildignore, raising,
                   attempt, tags0, wildignore0>>
    /\ UNCHANGED <<bridgeVars, cbVars, renVars>>


\* -------------------------------------------------------- specifications
Init == BridgeInit /\ CbIdle /\ RenIdle /\ TagIdle

Next ==
    \/ CallStart
    \/ GetProcess
    \/ WriteData
    \/ WriteNewline
    \/ Flush
    \/ Readline
    \/ Reload
    \/ \E w \in Workers : WorkerReply(w)
    \/ \E w \in Workers : WorkerExit(w)

Spec == Init /\ [][Next]_vars

CallbackInit == BridgeInit /\ CbIdle /\ RenIdle /\ TagIdle /\ TagIdle
CallbackNext ==
    \/ \E e \in EntryPoints : CbInvoke(e)
    \/ \E g \in UNION {Calls(f) : f \in EntryPoints \cup {"do_rename", "new_buffer"}} : CbCall(g)
    \/ CbReturn
    \/ CbRaise
    \/ CbRaiseInTry
    \/ CbTypeError
CallbackSpec == CallbackInit /\ [][CallbackNext]_vars

RenameInit == BridgeInit /\ CbIdle /\ RenInit /\ TagIdle
RenameNext ==
    \/ \E rep \in Replacements : RenStart(rep)
    \/ RenReplace
    \/ RenOpenFails
    \/ RenFinish
RenameSpec == RenameInit /\ [][RenameNext]_vars

TagInitAll == BridgeInit /\ CbIdle /\ RenIdle /\ TagInit
TagNext ==
    \/ Tempfile
    \/ EvalTags
    \/ EvalWildignore
    \/ SetWildignore
    \/ LetTags
    \/ Tjump
    \/ RestoreTags
    \/ RestoreWildignore
    \/ Unlink
TagSpec == TagInitAll /\ [][TagNext]_vars

\* The caller is one thread that runs each statement to its end; a worker that
\* holds a complete request line answers it or exits.  Nothing obliges a worker
\* without a request to exit, nor the editor to start a call or to reload.
CallerStep == GetProcess \/ WriteData \/ WriteNewline \/ Flush \/ Readline
WorkerServe(w) == FirstNl(stdinPipe[w]) # 0 /\ (WorkerReply(w) \/ WorkerExit(w))
FairSpec ==
    /\ Init
    /\ [][Next]_vars
    /\ WF_vars(CallerStep)
    /\ \A w \in Workers : WF_vars(WorkerServe(w))

\* ------------------------------------------------------ claims, the bridge
Alive == {w \in Workers : status[w] = "running"}
OpNames == [i \in 1..Len(ops) |-> ops[i][1]]
CallOrder == <<"data", "nl", "flush", "read">>
\* request lines flushed to w and not answered, plus answers not yet read
InFlight(w) ==
    Cardinality({i \in 1..Len(stdinPipe[w]) : stdinPipe[w][i].k = "nl"})
    + Len(stdoutPipe[w])

\* C1: at most one worker spawned by the object is alive at any moment, a
\* worker reload() asked to terminate and that has not exited included.
C1_AtMostOneWorkerAlive == Cardinality(Alive) <= 1

\* C2: the worker is started lazily and restarted only when needed: nothing
\* is spawned at construction or by reload(); an evaluation of `process` by a
\* remote call spawns exactly one new worker when there is none or the current
\* one has exited, and hands back the running one, spawning nothing, otherwise.
C2_LazySpawn ==
    /\ nspawned = 0 /\ proc = None
    /\ [][ /\ (pc = "idle" /\ nreloads' # nreloads) =>
                 (nspawned' = nspawned /\ status' = status)
           /\ (nspawned' # nspawned) => (pc = "get" /\ pc' = "op")
           /\ (pc = "get" /\ pc' = "op") =>
                 IF proc # None /\ status[proc] = "running"
                 THEN nspawned' = nspawned /\ proc' = proc /\ p' = proc
                      /\ status' = status
                 ELSE /\ nspawned' = nspawned + 1
                      /\ proc' # proc /\ p' = proc'
                      /\ status[proc'] = "unborn" /\ status'[proc'] = "running"
         ]_vars
C2_Witness ==
    /\ nspawned >= 3 /\ nexits >= 1 /\ nreloads >= 1
    /\ pc = "op" /\ \E w \in Workers : nRead[w] >= 1 /\ p = w

\* C3: _call is a strict write-then-read exchange with one call in flight:
\* the pipe operations of a call are, in this order and once each, the write
\* of the request, the write of the newline, the flush and the read of one
\* line; a call that ends with a decoded envelope has done all four; and no
\* call writes to a worker that holds an unanswered request or an unread
\* response of an earlier call.
C3_WriteThenRead ==
    /\ Len(ops) <= Len(CallOrder)
    /\ OpNames = SubSeq(CallOrder, 1, Len(ops))
    /\ (pc = "idle" /\ outcome.kind \in {"return", "NotFoundError", "Exception"})
          => OpNames = CallOrder
    /\ \A w \in Workers : InFlight(w) <= 1
    /\ (pc = "op" /\ stmt \in {"data", "nl", "flush"}) =>
          (InFlight(p) = 0 /\ nReq[p] = nRead[p])
    /\ pc = "idle" => \A w \in Alive : InFlight(w) = 0 /\ nReq[w] = nRead[w]
C3_Witness ==
    /\ callNo >= 2 /\ pc = "op" /\ stmt = "data"
    /\ nRead[p] >= 1

\* C4: an envelope whose code is 'ok' makes the call return its 'return'
\* payload; any other envelope makes the call raise and return nothing:
\* NotFoundError when the message starts with 'jedi.api.NotFoundError', an
\* exception carrying the message otherwise.
C4_EnvelopeDecoded ==
    ret.code # "none" =>
        /\ ret.code = "ok" =>
              (outcome.kind = "return" /\ outcome.value = ret.return)
        /\ ret.code # "ok" =>
              /\ outcome.kind # "return"
              /\ outcome.value = "none"
              /\ IF \E n \in 0..Len(ret.message) :
                       ret.message = NotFoundPrefix \o SubSeq(ret.message, Len(ret.message) - n + 1, Len(ret.message))
                 THEN outcome.kind = "NotFoundError"
                 ELSE outcome.kind = "Exception" /\ outcome.message = ret.message
C4_Witness ==
    /\ ret.code = "error" /\ Len(ret.message) > Len(NotFoundPrefix)
    /\ outcome.kind = "NotFoundError"

\* C5: the envelope a call decodes is the worker's answer to the request line
\* that call wrote, and it is the n-th answer of that worker for the n-th line
\* it was sent.
C5_FifoMatching ==
    ret.code # "none" =>
        /\ ret.forCall = callNo
        /\ ret.seq = nRead[p]
        /\ ops[Len(ops)] = <<"read", p>>
C5_Witness ==
    /\ ret.code # "none" /\ callNo >= 3 /\ ret.seq >= 2
    /\ \E w \in Workers : w # p /\ nRead[w] >= 1

\* C7: all pipe operations of one call target the same worker subprocess.
C7_OneWorkerPerCall ==
    \A i, j \in 1..Len(ops) : ops[i][2] = ops[j][2]

\* C8: every call eventually returns or raises, given that a worker holding a
\* complete request line answers it or exits.  (The second disjunct sets aside
\* the runs that use up the model's budget of worker exits, so that a call
\* found waiting forever waits beside a worker that is still free to exit.)
C8_CallTerminates == (pc # "idle") ~> (pc = "idle" \/ nexits = MaxExits)

\* --------------------------------------------------- claims, the callbacks
\* C6: whatever the worker or the editor API raises during a command, no
\* exception propagates out of an entry point to the editor.
C6_NoExceptionEscapes == propagated = FALSE

\* ------------------------------------------------------- claims, do_rename
RECURSIVE Renamed(_, _, _)
\* a line with every occurrence of the word replaced, left to right
Renamed(line, col, rep) ==
    IF col >= Len(line) THEN <<>>
    ELSE IF TextAt(line, col, Len(Orig)) = Orig /\ col + Len(Orig) <= Len(line)
         THEN rep \o Renamed(line, col + Len(Orig), rep)
         ELSE <<line[col + 1]>> \o Renamed(line, col + 1, rep)

C10_TabAndWindowRestored ==
    (rpc = "done" /\ replace # <<>>) =>
        /\ CurTab(ed).id = saved.tabId
        /\ CurWin(ed).id = saved.winId

\* -------------------------------------------------- claims, the tag jump
\* C11: once the tag-stack block of goto is over, having entered the body of
\* its with statement, &tags and &wildignore hold the values they had before
\* the block and the temporary tag file is deleted, whether tjump succeeded,
\* raised, or a command before it raised.
C11_TagJumpUndone ==
    (tpc = "done" /\ attempt # "none") =>
        /\ tags = tags0
        /\ wildignore = wildignore0
        /\ tagfile = "deleted"
C11_Witness ==
    /\ tpc = "done" /\ attempt = "raised" /\ raising
    /\ \E i \in 1..Len(tags0) : tags0[i] = "\\"
    /\ \E i \in 1..Len(wildignore0) : wildignore0[i] = "\""
    /\ name # tags0
    /\ tagfile = "deleted"

====
